---- MODULE Spec2Model ----
(***************************************************************************)
(* A model of tissa, an embedded multi-resolution time series store.       *)
(*                                                                         *)
(*   chunk      a dense slot array at one resolution, with a per-chunk     *)
(*              tag table (internal/chunk.go)                              *)
(*   Archive    the chunks of one resolution (internal/archive.go)         *)
(*   TimeSeries the archives of a series and the rollup cascade (tissa.go) *)
(*                                                                         *)
(* Go values are represented as follows.  int64 and float64 are integers.  *)
(* An interface{} that may be nil is a sequence of length at most one:     *)
(* << >> is nil and <<v>> holds v.  A Go map is a function.  A slot of     *)
(* chunk.Data is a reference to a map[int]interface{} object: Data[i] is   *)
(* 0 for a nil map and otherwise an index into the chunk's maps, so that   *)
(* two slots that hold the same Go map share one object, as they do after  *)
(* fillTo.  Tag indices start at 0 as in Go; sequences start at 1.  A nil  *)
(* tagMap, which a chunk read from a file has, is tagMapNil = TRUE.        *)
(***************************************************************************)
EXTENDS Integers, Sequences, FiniteSets, TLC

\* ---------------------------------------------------------------- bounds
\* Timestamps handed to AddValues are drawn from MinTime..MaxTime.
MinTime == 3
MaxTime == 7
\* AddValues is called at most MaxCalls times.
MaxCalls == 3
\* Slots per chunk (the series-wide chunkSizeSlots, scaled down).
ChunkSlots == 4
\* Query windows are drawn from 0..MaxTime + QuerySlack.
QuerySlack == 2
\* Timestamps appended to the persisted series are drawn from
\* MinTime..DiskMaxTime.
DiskMaxTime == 9
\* Write and OpenTimeSeries are called at most MaxIO times in all.
MaxIO == 3
\* The failing writeObject of a Write is that of a chunk up to the
\* MaxFail-th.
MaxFail == 2

\* ------------------------------------------------------------ inputs
Signals == {"a", "b"}
\* The value maps a caller passes: the empty map, one signal with either of
\* two values, the other signal, and both signals at once.
ValMaps == {[s \in {} |-> 0], [s \in {"a"} |-> 1], [s \in {"a"} |-> 2],
            [s \in {"b"} |-> 2],
            [s \in {"a", "b"} |-> IF s = "a" THEN 1 ELSE 2]}
\* The orders in which a Go range over a map can visit a set of keys.
Orders == {o \in [1..Cardinality(Signals) -> Signals] :
             \A i, j \in DOMAIN o : i # j => o[i] # o[j]}
AnOrder == CHOOSE o \in Orders : TRUE

\* TimeSeriesConfig.DefaultValue of the modelled series.
DefaultValue == 7

\* -------------------------------------------------------------- state
VARIABLES
  archives,   \* TimeSeries.archives, finest resolution first
  disk,       \* the files of the series' directory
  panicked,   \* TRUE once a call has panicked
  last,       \* the latest operation: its name, arguments and locals, and
              \* for AddValues the base tail chunk's EndTime when it was made
  calls,      \* the number of AddValues calls so far
  io,         \* the number of Write and OpenTimeSeries calls so far
  reader      \* a GetData call of another goroutine: its position and locals

vars == <<archives, disk, panicked, last, calls, io, reader>>

\* ------------------------------------------------------ Go arithmetic
\* int64 division truncates toward zero; % takes the sign of the dividend.
GoDiv(a, b) == IF a >= 0 THEN a \div b ELSE -((-a) \div b)
GoMod(a, b) == a - b * GoDiv(a, b)

NIL == << >>
Some(v) == <<v>>
EmptyMap == [x \in {} |-> 0]

\* ------------------------------------------------------------- chunk
newChunk(resolution, startTime) ==
  [StartTime |-> startTime, EndTime |-> 0, Resolution |-> resolution,
   Data |-> << >>, maps |-> << >>, Tags |-> << >>, tagMap |-> EmptyMap,
   tagMapNil |-> FALSE, dirty |-> TRUE]

empty(c) == c.EndTime = 0

latestRaw(c) == IF Len(c.Data) = 0 THEN 0 ELSE c.Data[Len(c.Data)]

\* A fill loop that also fills the slot of timestamp.
RECURSIVE fillLoopThrough(_, _, _, _)
fillLoopThrough(c, ts, timestamp, fillVal) ==
  IF ts <= timestamp
  THEN fillLoopThrough([c EXCEPT !.Data = Append(@, fillVal),
                                 !.EndTime = ts, !.dirty = TRUE],
                       ts + c.Resolution, timestamp, fillVal)
  ELSE c

\* The loop of fillTo: one slot per resolution step below timestamp.
RECURSIVE fillLoop(_, _, _, _)
fillLoop(c, ts, timestamp, fillVal) ==
  IF ts < timestamp
  THEN fillLoop([c EXCEPT !.Data = Append(@, fillVal), !.EndTime = ts,
                          !.dirty = TRUE],
                ts + c.Resolution, timestamp, fillVal)
  ELSE c

fillTo(c, timestamp) ==
  LET numToFill == GoDiv(timestamp - c.EndTime, c.Resolution)
      fillVal == IF numToFill < 3 THEN latestRaw(c) ELSE 0
  IN fillLoop(c, c.EndTime + c.Resolution, timestamp, fillVal)

\* derefTags visits the entries of val in the order ord (a Go map range),
\* interning each unknown tag at the end of the tag table.
RECURSIVE internTags(_, _, _, _)
internTags(c, val, ord, i) ==
  IF i > Len(ord) THEN c
  ELSE LET tag == ord[i] IN
       IF tag \in DOMAIN val /\ tag \notin DOMAIN c.tagMap
       THEN internTags([c EXCEPT
                          !.tagMap = [t \in DOMAIN c.tagMap \cup {tag} |->
                                        IF t = tag THEN Len(c.Tags)
                                        ELSE c.tagMap[t]],
                          !.Tags = Append(@, tag)],
                       val, ord, i + 1)
       ELSE internTags(c, val, ord, i + 1)

\* The map[int]interface{} derefTags returns, keyed by the tag indices of
\* the chunk after interning.
derefMap(c, val) ==
  [i \in {c.tagMap[tag] : tag \in DOMAIN val} |->
     val[CHOOSE tag \in DOMAIN val : c.tagMap[tag] = i]]

\* Overwrite the entries of m that upd names and add the others.
MapMerge(m, upd) ==
  [k \in DOMAIN m \cup DOMAIN upd |-> IF k \in DOMAIN upd THEN upd[k] ELSE m[k]]

\* chunk.append panics when it indexes Data[len(Data)-1] of an empty Data,
\* and when derefTags assigns to the nil tagMap of a chunk read from a
\* file, which it does for every entry of val.
appendPanics(c, val, timestamp) ==
  \/ timestamp = c.EndTime /\ Len(c.Data) = 0
  \/ timestamp >= c.EndTime /\ c.tagMapNil /\ val # EmptyMap

RECURSIVE nilLoop(_, _, _)
nilLoop(c, ts, timestamp) ==
  IF ts < timestamp
  THEN nilLoop([c EXCEPT !.Data = Append(@, 0)], ts + c.Resolution, timestamp)
  ELSE c

\* A merge that stores the new map in the tail slot instead of updating
\* the entries of the map that is there.
mergeReplace(c, val, ord) ==
  LET c1 == internTags(c, val, ord, 1)
  IN [c1 EXCEPT !.maps[c.Data[Len(c.Data)]] = derefMap(c1, val)]

\* The branch timestamp == c.EndTime of chunk.append: the entries of val
\* are written into the map of the tail slot.
mergeTail(c, val, ord) ==
  LET c1 == internTags(c, val, ord, 1)
      latest == c.Data[Len(c.Data)]
  IN [c1 EXCEPT !.maps[latest] = MapMerge(@, derefMap(c1, val))]

\* The rest of chunk.append, for a timestamp that is not merged.
appendSlot(c, val, timestamp, ord) ==
  LET c1 == IF ~empty(c) /\ timestamp > c.EndTime + c.Resolution
            THEN fillTo(c, timestamp) ELSE c
      c2 == IF empty(c1) /\ timestamp # c1.StartTime
            THEN nilLoop(c1, c1.StartTime, timestamp) ELSE c1
      c3 == internTags(c2, val, ord, 1)
  IN [c3 EXCEPT !.maps = Append(@, derefMap(c3, val)),
                !.Data = Append(@, Len(c3.maps) + 1),
                !.EndTime = timestamp,
                !.dirty = TRUE]

\* chunk.append without its first test: a late sample is stored.
chunkAppendNoDrop(c, val, timestamp, ord) ==
  IF timestamp = c.EndTime THEN mergeTail(c, val, ord)
  ELSE appendSlot(c, val, timestamp, ord)

chunkAppend(c, val, timestamp, ord) ==
  IF timestamp < c.EndTime THEN c
  ELSE IF timestamp = c.EndTime THEN mergeTail(c, val, ord)
  ELSE appendSlot(c, val, timestamp, ord)

tsIndex(c, ts) == GoDiv(ts - c.StartTime, c.Resolution)

\* A slot lookup that reads the tag table from its end.
slotByNameReversed(c, idx) ==
  IF idx >= 0 /\ idx < Len(c.Data) /\ c.Data[idx + 1] # 0
  THEN LET tick == c.maps[c.Data[idx + 1]]
       IN [tag \in {c.Tags[Len(c.Tags) - i] : i \in DOMAIN tick} |->
             tick[CHOOSE i \in DOMAIN tick : c.Tags[Len(c.Tags) - i] = tag]]
  ELSE EmptyMap

\* The slot of c at Go index idx, as a map from tag names to values;
\* EmptyMap when the index is out of range or the slot is nil.
slotByName(c, idx) ==
  IF idx >= 0 /\ idx < Len(c.Data) /\ c.Data[idx + 1] # 0
  THEN LET tick == c.maps[c.Data[idx + 1]]
       IN [tag \in {c.Tags[i + 1] : i \in DOMAIN tick} |->
             tick[CHOOSE i \in DOMAIN tick : c.Tags[i + 1] = tag]]
  ELSE EmptyMap

\* A getData that returns a series for every tag of the chunk's table.
chunkGetDataAllTags(c, startTime, endTime) ==
  LET l == GoDiv(endTime - startTime, c.Resolution)
      slot(i) == slotByName(c, tsIndex(c, startTime + (i - 1) * c.Resolution))
  IN [tag \in {c.Tags[n] : n \in DOMAIN c.Tags} |->
        [i \in 1..l |-> IF tag \in DOMAIN slot(i) THEN Some(slot(i)[tag])
                        ELSE NIL]]

\* chunk.getData: for each tag that has a value somewhere in [startTime,
\* endTime), a series with one entry per slot of the window.
chunkGetData(c, startTime, endTime) ==
  LET l == GoDiv(endTime - startTime, c.Resolution)
      slot(i) == slotByName(c, tsIndex(c, startTime + (i - 1) * c.Resolution))
      tags == UNION {DOMAIN slot(i) : i \in 1..l}
  IN [tag \in tags |->
        [i \in 1..l |-> IF tag \in DOMAIN slot(i) THEN Some(slot(i)[tag])
                        ELSE NIL]]

chunkLatest(c) ==
  IF latestRaw(c) = 0 THEN EmptyMap ELSE slotByName(c, Len(c.Data) - 1)

\* ------------------------------------------------------------- files
\* A file is NIL when it does not exist, Some(obj) when it holds the
\* encoding of obj, and Unreadable when it exists and cannot be decoded.
\* writeObject encodes the exported fields of a struct; readObject gives
\* the unexported ones their zero values.
Unreadable == Some([unreadable |-> TRUE])

\* readObject returns an error.
readFails(f) == f = NIL \/ f = Unreadable

\* What writeObject stores of a chunk: a nil map stays nil, and two slots
\* that share a map are written as two maps.
encodeChunk(c) ==
  [StartTime |-> c.StartTime, EndTime |-> c.EndTime,
   Resolution |-> c.Resolution,
   Data |-> [i \in DOMAIN c.Data |->
               IF c.Data[i] = 0 THEN NIL ELSE Some(c.maps[c.Data[i]])],
   Tags |-> c.Tags]

\* The chunk readObject builds: one map object per slot that is not nil,
\* a nil tagMap and dirty = false.
decodeChunk(o) ==
  LET live == {i \in DOMAIN o.Data : o.Data[i] # NIL}
      ref(i) == Cardinality({j \in live : j <= i})
  IN [StartTime |-> o.StartTime, EndTime |-> o.EndTime,
      Resolution |-> o.Resolution,
      Data |-> [i \in DOMAIN o.Data |-> IF i \in live THEN ref(i) ELSE 0],
      maps |-> [n \in 1..Cardinality(live) |->
                  o.Data[CHOOSE i \in live : ref(i) = n][1]],
      Tags |-> o.Tags, tagMap |-> EmptyMap, tagMapNil |-> TRUE,
      dirty |-> FALSE]

\* What writeObject stores of an Archive, and the Archive readObject
\* builds from it.
encodeArchive(a) ==
  [Interval |-> a.Interval, ChunkSize |-> a.ChunkSize, Dir |-> a.Dir,
   Retention |-> a.Retention, StartTime |-> a.StartTime,
   EndTime |-> a.EndTime]

decodeArchive(o) ==
  [Interval |-> o.Interval, ChunkSize |-> o.ChunkSize, Dir |-> o.Dir,
   Retention |-> o.Retention, StartTime |-> o.StartTime,
   EndTime |-> o.EndTime, chunks |-> << >>, lastWrite |-> 0]

\* The file of the chunk that starts at ts in the directory dir of d.
chunkFile(d, dir, ts) ==
  IF ts \in DOMAIN d.dirs[dir].chunks THEN d.dirs[dir].chunks[ts] ELSE NIL

\* ----------------------------------------------------------- Archive
NewArchive(dirPath, interval, retention, chunkSize) ==
  [Interval |-> interval, ChunkSize |-> chunkSize, Dir |-> dirPath,
   Retention |-> retention, StartTime |-> 0, EndTime |-> 0,
   chunks |-> << >>, lastWrite |-> 0]

\* A tsNorm that rounds down.
tsNormDown(a, timestamp) == timestamp - GoMod(timestamp, a.Interval)

\* Round up to the nearest resolution.
tsNorm(a, timestamp) ==
  LET ts == timestamp - GoMod(timestamp, a.Interval)
  IN IF ts < timestamp THEN ts + a.Interval ELSE ts

chunkStart(a, ts) == ts - GoMod(ts, a.ChunkSize)

chunkEnd(a, ts) == chunkStart(a, ts) + a.ChunkSize - a.Interval

\* The nil *Archive.
NilArchive == [nil |-> TRUE]

\* lastChunk is meaningful when a.chunks is not empty (Go returns nil).
lastChunk(a) == a.chunks[Len(a.chunks)]

boundaryCheck(a, ts) == ts > chunkEnd(a, lastChunk(a).StartTime)

\* Archive.Append up to the call of chunk.append: the chunk list with the
\* tail chunk that receives the sample.
appendTarget(a, timestamp) ==
  IF Len(a.chunks) = 0
  THEN <<newChunk(a.Interval, timestamp - GoMod(timestamp, a.ChunkSize))>>
  ELSE IF boundaryCheck(a, timestamp)
  THEN LET lc == lastChunk(a)
           nextStart == chunkStart(a, timestamp)
           filled == IF lc.EndTime < chunkEnd(a, lc.StartTime)
                     THEN fillTo(lc, nextStart) ELSE lc
       IN Append([a.chunks EXCEPT ![Len(a.chunks)] = filled],
                 newChunk(a.Interval, nextStart))
  ELSE a.chunks

\* Archive.Append.  The result names the archive after the call and whether
\* chunk.append panicked (the chunk list is already updated by then).
ArchiveAppend(a, val, ts, ord) ==
  LET timestamp == tsNorm(a, ts)
      chunks1 == appendTarget(a, timestamp)
      lc == chunks1[Len(chunks1)]
  IN IF appendPanics(lc, val, timestamp)
     THEN [a |-> [a EXCEPT !.chunks = chunks1], panic |-> TRUE]
     ELSE [a |-> [a EXCEPT
                    !.chunks = [chunks1 EXCEPT ![Len(chunks1)] =
                                  chunkAppend(lc, val, timestamp, ord)],
                    !.EndTime = timestamp,
                    !.StartTime = IF a.StartTime = 0 THEN timestamp ELSE @],
           panic |-> FALSE]

\* Archive.Latest: the tail slot by tag name and the tail chunk's EndTime.
ArchiveLatest(a) ==
  IF Len(a.chunks) = 0 THEN [val |-> EmptyMap, timestamp |-> 0]
  ELSE [val |-> chunkLatest(lastChunk(a)), timestamp |-> lastChunk(a).EndTime]

\* getChunkByStartTime: the first in-memory chunk that starts at ts, or
\* else the chunk read from the file named ts; NIL stands for the error.
getChunkByStartTime(a, ts) ==
  LET hits == {i \in DOMAIN a.chunks : a.chunks[i].StartTime = ts}
      file == chunkFile(disk, a.Dir, ts)
  IN IF hits # {}
     THEN Some(a.chunks[CHOOSE i \in hits : \A j \in hits : i <= j])
     ELSE IF readFails(file) THEN NIL
     ELSE Some(decodeChunk(file[1]))

\* Copy ticks into exst from Go index i on.
Splice(exst, i, ticks) ==
  [n \in DOMAIN exst |->
     IF n - i >= 1 /\ n - i <= Len(ticks) THEN ticks[n - i] ELSE exst[n]]

\* The chunk loop of Archive.GetData.
RECURSIVE getDataLoop(_, _, _, _, _, _, _)
getDataLoop(a, data, i, cs, startTime, endTime, l) ==
  IF cs < endTime
  THEN LET cStart == IF cs < startTime THEN startTime ELSE cs
           cEnd == IF cs + a.ChunkSize > endTime THEN endTime
                   ELSE cs + a.ChunkSize
           found == getChunkByStartTime(a, cs)
           chunkData == IF found = NIL THEN EmptyMap
                        ELSE chunkGetData(found[1], cStart, cEnd)
           data1 == [key \in DOMAIN data \cup DOMAIN chunkData |->
                       IF key \in DOMAIN chunkData
                       THEN Splice(IF key \in DOMAIN data THEN data[key]
                                   ELSE [n \in 1..l |-> NIL],
                                   i, chunkData[key])
                       ELSE data[key]]
       IN getDataLoop(a, data1, i + GoDiv(cEnd - cStart, a.Interval),
                      cs + a.ChunkSize, startTime, endTime, l)
  ELSE data

GetData(a, start, end) ==
  LET startTime == tsNorm(a, start)
      endTime == tsNorm(a, end)
      l == GoDiv(endTime - startTime, a.Interval)
  IN [data |-> getDataLoop(a, EmptyMap, 0, chunkStart(a, startTime),
                           startTime, endTime, l),
      stamps |-> [n \in 1..l |-> startTime + (n - 1) * a.Interval]]

\* -------------------------------------------------------- TimeSeries
\* The configurations of the modelled series (TimeSeriesConfig.Archives).
CascadeConfig == <<[Resolution |-> 1, Retention |-> 4],
                   [Resolution |-> 2, Retention |-> 8],
                   [Resolution |-> 4, Retention |-> 16]>>
SingleConfig == <<[Resolution |-> 2, Retention |-> 8]>>

\* NewTimeSeries: one empty archive per configured resolution, chunks of
\* chunkSizeSlots slots.  The directory of an archive is named after its
\* resolution.
NewTimeSeries(config) ==
  [i \in DOMAIN config |->
     NewArchive(config[i].Resolution, config[i].Resolution,
                config[i].Retention, ChunkSlots * config[i].Resolution)]

baseArchive(archs) == archs[1]

Rollup(total, count, min, max) ==
  [Total |-> total, Count |-> count, Min |-> min, Max |-> max]

RECURSIVE rawFold(_, _, _, _)
rawFold(v, n, r, first) ==
  IF n > Len(v) THEN r
  ELSE IF v[n] = NIL THEN rawFold(v, n + 1, r, first)
  ELSE LET val == v[n][1]
       IN rawFold(v, n + 1,
                  Rollup(r.Total + val, r.Count + 1,
                         IF first \/ val < r.Min THEN val ELSE r.Min,
                         IF first \/ val > r.Max THEN val ELSE r.Max),
                  FALSE)

\* rollupRawData without the first flag: Max and Min start from 0.
rollupRawDataNoFirst(data) ==
  [k \in DOMAIN data |-> rawFold(data[k], 1, Rollup(0, 0, 0, 0), FALSE)]

rollupRawData(data) ==
  [k \in DOMAIN data |-> rawFold(data[k], 1, Rollup(0, 0, 0, 0), TRUE)]

RECURSIVE rollupFold(_, _, _, _)
rollupFold(v, n, r, first) ==
  IF n > Len(v) THEN r
  ELSE IF v[n] = NIL THEN rollupFold(v, n + 1, r, first)
  ELSE LET rVal == v[n][1]
       IN rollupFold(v, n + 1,
                     Rollup(r.Total + rVal.Total, r.Count + rVal.Count,
                            IF first \/ rVal.Min < r.Min THEN rVal.Min
                            ELSE r.Min,
                            IF first \/ rVal.Max > r.Max THEN rVal.Max
                            ELSE r.Max),
                     FALSE)

rollupRollupData(data) ==
  [k \in DOMAIN data |-> rollupFold(data[k], 1, Rollup(0, 0, 0, 0), TRUE)]

\* The rollup loop of AddValues from archive i on (archs[i - 1] is
\* curArchive).  levels counts the archives that received a rollup.  The
\* read of the Interval of a nil archive panics.
RECURSIVE cascade(_, _, _, _, _)
cascade(archs, i, timestamp, lastTimestamp, ords) ==
  IF i > Len(archs)
  THEN [archs |-> archs, levels |-> i - 2, panic |-> FALSE]
  ELSE IF archs[i] = NilArchive
  THEN [archs |-> archs, levels |-> i - 2, panic |-> TRUE]
  ELSE LET rollupIval == archs[i].Interval IN
       IF GoDiv(timestamp, rollupIval) = GoDiv(lastTimestamp, rollupIval)
       THEN [archs |-> archs, levels |-> i - 2, panic |-> FALSE]
       ELSE LET rollupStart == timestamp - GoMod(timestamp, rollupIval)
                                 - rollupIval
                rollupEnd == rollupStart + rollupIval
                data == GetData(archs[i - 1], rollupStart, rollupEnd).data
                rollups == IF i = 2 THEN rollupRawData(data)
                           ELSE rollupRollupData(data)
                r == ArchiveAppend(archs[i], rollups, rollupEnd, ords[i])
                archs1 == [archs EXCEPT ![i] = r.a]
            IN IF r.panic
               THEN [archs |-> archs1, levels |-> i - 2, panic |-> TRUE]
               ELSE cascade(archs1, i + 1, timestamp, lastTimestamp, ords)

\* TimeSeries.AddValues(vals, timestamp).  ords[i] is the order in which
\* the append to archive i ranges over its map.  The read of the EndTime
\* of a nil base archive panics.
AddValues(vals, timestamp, ords) ==
  /\ ~panicked
  /\ calls < MaxCalls
  /\ calls' = calls + 1
  /\ UNCHANGED <<disk, io, reader>>
  /\ IF baseArchive(archives) = NilArchive
     THEN /\ panicked' = TRUE
          /\ UNCHANGED archives
          /\ last' = [op |-> "AddValues", vals |-> vals,
                      timestamp |-> timestamp, lastTimestamp |-> 0,
                      levels |-> 0, tailEnd |-> 0]
     ELSE LET lastTimestamp == baseArchive(archives).EndTime
              tailEnd == ArchiveLatest(baseArchive(archives)).timestamp
              r == ArchiveAppend(baseArchive(archives), vals, timestamp,
                                 ords[1])
              archs1 == [archives EXCEPT ![1] = r.a]
              res == IF r.panic
                     THEN [archs |-> archs1, levels |-> 0, panic |-> TRUE]
                     ELSE cascade(archs1, 2, timestamp, lastTimestamp, ords)
          IN /\ archives' = res.archs
             /\ panicked' = res.panic
             /\ last' = [op |-> "AddValues", vals |-> vals,
                         timestamp |-> timestamp,
                         lastTimestamp |-> lastTimestamp,
                         levels |-> res.levels, tailEnd |-> tailEnd]

\* TimeSeries.Latest
Latest(archs) == ArchiveLatest(baseArchive(archs))

NoCall == [op |-> "NewTimeSeries", vals |-> EmptyMap, timestamp |-> 0,
           lastTimestamp |-> 0, levels |-> 0, tailEnd |-> 0]

\* The files NewTimeSeries leaves: the config and, in the directory of each
\* archive, the header its first Write stores; no chunk file.
NewDisk(config) ==
  [config |-> Some([Archives |-> config, DefaultValue |-> DefaultValue]),
   dirs |-> [d \in {config[i].Resolution : i \in DOMAIN config} |->
               LET i == CHOOSE i \in DOMAIN config : config[i].Resolution = d
               IN [archive |-> Some(encodeArchive(NewTimeSeries(config)[i])),
                   chunks |-> EmptyMap]]]

\* No GetData call is running.
NoReader == [pc |-> "idle"]

\* A series is created with either configuration.
Init ==
  /\ \E config \in {CascadeConfig, SingleConfig} :
       /\ archives = NewTimeSeries(config)
       /\ disk = NewDisk(config)
  /\ panicked = FALSE
  /\ last = NoCall
  /\ calls = 0
  /\ io = 0
  /\ reader = NoReader

\* The order of a range matters to the append to archive i only if it
\* can intern two tags: at least two signals are passed or rolled up.
\* Where it cannot matter, only AnOrder is drawn.
OrderMatters(i, vals, timestamp) ==
  IF i = 1 THEN Cardinality(DOMAIN vals) >= 2
  ELSE GoDiv(timestamp, archives[i].Interval)
         # GoDiv(baseArchive(archives).EndTime, archives[i].Interval)

Next ==
  \E vals \in ValMaps, timestamp \in MinTime..MaxTime,
     ords \in [DOMAIN archives -> Orders] :
    /\ \A i \in DOMAIN archives :
         OrderMatters(i, vals, timestamp) \/ ords[i] = AnOrder
    /\ AddValues(vals, timestamp, ords)

Spec == Init /\ [][Next]_vars

\* ------------------------------------------------------- persistence
\* The chunk loop of Archive.Write from the k-th chunk on.  files are the
\* chunk files of the archive's directory.  The writeObject of the
\* failAt-th chunk fails (failAt = 0: none does) and leaves the file as it
\* was or, if damage, unreadable.
RECURSIVE writeChunks(_, _, _, _, _)
writeChunks(a, files, k, failAt, damage) ==
  IF k > Len(a.chunks) THEN [files |-> files, err |-> FALSE]
  ELSE LET c == a.chunks[k]
           name == chunkStart(a, c.StartTime)
           put(obj) == [n \in DOMAIN files \cup {name} |->
                          IF n = name THEN obj ELSE files[n]]
       IN IF ~c.dirty THEN writeChunks(a, files, k + 1, failAt, damage)
          ELSE IF k = failAt
          THEN [files |-> IF damage THEN put(Unreadable) ELSE files,
                err |-> TRUE]
          ELSE writeChunks(a, put(Some(encodeChunk(c))), k + 1, failAt,
                           damage)

\* An exerciseRetention that removes nothing.
keepAll(a, files) == [a |-> a, files |-> files]

\* exerciseRetention: while StartTime is more than Retention below
\* EndTime, remove the file of the chunk of StartTime and move StartTime
\* to the start of the next chunk.
RECURSIVE exerciseRetention(_, _)
exerciseRetention(a, files) ==
  IF a.EndTime - a.StartTime > a.Retention
  THEN exerciseRetention(
         [a EXCEPT !.StartTime = chunkStart(a, a.StartTime) + a.ChunkSize],
         [n \in DOMAIN files \ {chunkStart(a, a.StartTime)} |-> files[n]])
  ELSE [a |-> a, files |-> files]

\* A Write that stores the header before it exercises retention.
ArchiveWriteHeaderFirst(a, dir, failAt, damage) ==
  IF a.EndTime > a.lastWrite
  THEN LET w == writeChunks(a, dir.chunks, 1, failAt, damage)
       IN IF w.err
          THEN [a |-> a, dir |-> [dir EXCEPT !.chunks = w.files],
                err |-> TRUE]
          ELSE LET a1 == [a EXCEPT !.chunks = <<lastChunk(a)>>]
                   r == exerciseRetention(a1, w.files)
               IN [a |-> [r.a EXCEPT !.lastWrite = r.a.EndTime],
                   dir |-> [archive |-> Some(encodeArchive(a1)),
                            chunks |-> r.files],
                   err |-> FALSE]
  ELSE LET a2 == [a EXCEPT !.lastWrite = a.EndTime]
       IN [a |-> a2,
           dir |-> [dir EXCEPT !.archive = Some(encodeArchive(a2))],
           err |-> FALSE]

\* A Write that returns the error of a chunk's writeObject only after it
\* has finished.
ArchiveWriteLateError(a, dir, failAt, damage) ==
  IF a.EndTime > a.lastWrite
  THEN LET w == writeChunks(a, dir.chunks, 1, failAt, damage)
           r == exerciseRetention(
                  [a EXCEPT !.chunks = <<lastChunk(a)>>], w.files)
           a2 == [r.a EXCEPT !.lastWrite = r.a.EndTime]
       IN [a |-> a2,
           dir |-> [archive |-> Some(encodeArchive(a2)), chunks |-> r.files],
           err |-> w.err]
  ELSE LET a2 == [a EXCEPT !.lastWrite = a.EndTime]
       IN [a |-> a2,
           dir |-> [dir EXCEPT !.archive = Some(encodeArchive(a2))],
           err |-> FALSE]

\* Archive.Write.  dir holds the files of the archive's directory.  The
\* error of the header's writeObject is not looked at; the header is
\* taken to be written.
ArchiveWrite(a, dir, failAt, damage) ==
  IF a.EndTime > a.lastWrite
  THEN LET w == writeChunks(a, dir.chunks, 1, failAt, damage)
       IN IF w.err
          THEN [a |-> a, dir |-> [dir EXCEPT !.chunks = w.files],
                err |-> TRUE]
          ELSE LET r == exerciseRetention(
                          [a EXCEPT !.chunks = <<lastChunk(a)>>], w.files)
                   a2 == [r.a EXCEPT !.lastWrite = r.a.EndTime]
               IN [a |-> a2,
                   dir |-> [archive |-> Some(encodeArchive(a2)),
                            chunks |-> r.files],
                   err |-> FALSE]
  ELSE LET a2 == [a EXCEPT !.lastWrite = a.EndTime]
       IN [a |-> a2,
           dir |-> [dir EXCEPT !.archive = Some(encodeArchive(a2))],
           err |-> FALSE]

\* The loop of TimeSeries.Write from archive i on.  Write of a nil archive
\* panics.
RECURSIVE writeArchives(_, _, _, _, _)
writeArchives(archs, d, i, failAt, damage) ==
  IF i > Len(archs)
  THEN [archs |-> archs, disk |-> d, err |-> FALSE, panic |-> FALSE]
  ELSE IF archs[i] = NilArchive
  THEN [archs |-> archs, disk |-> d, err |-> FALSE, panic |-> TRUE]
  ELSE LET w == ArchiveWrite(archs[i], d.dirs[archs[i].Dir], failAt[i],
                             damage)
           archs1 == [archs EXCEPT ![i] = w.a]
           d1 == [d EXCEPT !.dirs[archs[i].Dir] = w.dir]
       IN IF w.err
          THEN [archs |-> archs1, disk |-> d1, err |-> TRUE, panic |-> FALSE]
          ELSE writeArchives(archs1, d1, i + 1, failAt, damage)

\* TimeSeries.Write.  failAt[i] and damage say which writeObject of a
\* chunk of archive i fails and what it leaves.  last records them, the
\* error returned and the operation before this one.
Write(failAt, damage) ==
  /\ ~panicked
  /\ io < MaxIO
  /\ io' = io + 1
  /\ LET w == writeArchives(archives, disk, 1, failAt, damage)
     IN /\ archives' = w.archs
        /\ disk' = w.disk
        /\ panicked' = w.panic
        /\ last' = [op |-> "Write", err |-> w.err, failAt |-> failAt,
                    prev |-> last.op,
                    prevErr |-> last.op = "Write" /\ last.err]
  /\ UNCHANGED <<calls, reader>>

\* OpenArchive of the directory dirPath of d.
OpenArchive(d, dirPath) ==
  LET header == d.dirs[dirPath].archive
  IN IF readFails(header) THEN [a |-> NilArchive, err |-> TRUE]
     ELSE LET archive == decodeArchive(header[1])
              file == chunkFile(d, dirPath,
                                chunkStart(archive, archive.EndTime))
          IN IF archive.EndTime > 0
             THEN IF readFails(file) THEN [a |-> NilArchive, err |-> TRUE]
                  ELSE [a |-> [archive EXCEPT
                                 !.chunks = <<decodeChunk(file[1])>>],
                        err |-> FALSE]
             ELSE [a |-> archive, err |-> FALSE]

\* OpenTimeSeries of the directory d: the series and the error returned.
\* The error of OpenArchive is assigned and never read.
OpenTimeSeries(d) ==
  IF readFails(d.config) THEN [series |-> NIL, err |-> TRUE]
  ELSE LET config == d.config[1].Archives
       IN [series |-> Some([i \in DOMAIN config |->
                              OpenArchive(d, config[i].Resolution).a]),
           err |-> FALSE]

\* The process drops its series and opens the directory again.
Open ==
  /\ ~panicked
  /\ io < MaxIO
  /\ io' = io + 1
  /\ LET o == OpenTimeSeries(disk)
     IN /\ archives' = IF o.err THEN archives ELSE o.series[1]
        /\ last' = [op |-> "OpenTimeSeries", err |-> o.err]
  /\ UNCHANGED <<disk, panicked, calls, reader>>

\* The series of the persistence specification: one archive of resolution
\* 1 whose retention is shorter than a chunk, as it is for {MINUTE, DAY}.
DiskConfig == <<[Resolution |-> 1, Retention |-> 1]>>

\* The value maps and timestamps appended there.
DiskValMaps == {EmptyMap, [s \in {"a"} |-> 1], [s \in {"b"} |-> 2]}
DiskTimes == MinTime..DiskMaxTime

\* The Write of archive i calls writeObject for its k-th chunk.
CanFail(i, k) ==
  /\ archives[i] # NilArchive
  /\ archives[i].EndTime > archives[i].lastWrite
  /\ k \in DOMAIN archives[i].chunks
  /\ archives[i].chunks[k].dirty

InitDisk ==
  /\ archives = NewTimeSeries(DiskConfig)
  /\ disk = NewDisk(DiskConfig)
  /\ panicked = FALSE
  /\ last = NoCall
  /\ calls = 0
  /\ io = 0
  /\ reader = NoReader

NextDisk ==
  \/ \E vals \in DiskValMaps, timestamp \in DiskTimes :
       AddValues(vals, timestamp, [i \in DOMAIN archives |-> AnOrder])
  \/ \E failAt \in [DOMAIN archives -> 0..MaxFail], damage \in BOOLEAN :
       /\ \A i \in DOMAIN archives : failAt[i] = 0 \/ CanFail(i, failAt[i])
       /\ (\A i \in DOMAIN archives : failAt[i] = 0) => ~damage
       /\ Write(failAt, damage)
  \/ Open

SpecDisk == InitDisk /\ [][NextDisk]_vars

\* -------------------------------------------------------- concurrency
\* Append and Write hold a.mu from their first statement to their return,
\* so each of them is one step.  GetData never takes a.mu: another
\* goroutine's call of it runs beside them, one pass of its chunk loop at
\* a time.  reader.before and reader.ops record, for the properties, what
\* the call would have returned had it run at once and how many AddValues
\* and Write calls had returned when it began.

\* GetData(start, end) begins: the statements above its chunk loop.
GetDataBegin(start, end) ==
  /\ ~panicked
  /\ reader.pc = "idle"
  /\ LET a == baseArchive(archives)
         startTime == tsNorm(a, start)
         endTime == tsNorm(a, end)
     IN reader' = [pc |-> "loop", start |-> start, end |-> end,
                   startTime |-> startTime, endTime |-> endTime,
                   l |-> GoDiv(endTime - startTime, a.Interval),
                   cs |-> chunkStart(a, startTime), i |-> 0,
                   data |-> EmptyMap,
                   before |-> GetData(a, start, end).data,
                   ops |-> calls + io]
  /\ UNCHANGED <<archives, disk, panicked, last, calls, io>>

\* One pass of the chunk loop of GetData, over the chunk that starts at
\* reader.cs.
GetDataChunk ==
  /\ reader.pc = "loop"
  /\ reader.cs < reader.endTime
  /\ LET a == baseArchive(archives)
         cStart == IF reader.cs < reader.startTime THEN reader.startTime
                   ELSE reader.cs
         cEnd == IF reader.cs + a.ChunkSize > reader.endTime
                 THEN reader.endTime
                 ELSE reader.cs + a.ChunkSize
     IN reader' = [reader EXCEPT
                     !.data = getDataLoop(a, reader.data, reader.i,
                                          reader.cs, reader.startTime,
                                          cEnd, reader.l),
                     !.i = reader.i + GoDiv(cEnd - cStart, a.Interval),
                     !.cs = reader.cs + a.ChunkSize]
  /\ UNCHANGED <<archives, disk, panicked, last, calls, io>>

\* The chunk loop is over and GetData returns reader.data.
GetDataReturn ==
  /\ reader.pc = "loop"
  /\ reader.cs >= reader.endTime
  /\ reader' = [reader EXCEPT !.pc = "done"]
  /\ UNCHANGED <<archives, disk, panicked, last, calls, io>>

\* The timestamps and value maps appended beside the reader, and the
\* windows it reads.
ConcTimes == {1, 2, ChunkSlots + 1, ChunkSlots + 2}
ConcValMaps == {[s \in {"a"} |-> 1], [s \in {"b"} |-> 2]}
ReadWindows == {<<0, ChunkSlots>>, <<0, 2 * ChunkSlots>>}

NextConc ==
  \/ \E vals \in ConcValMaps, timestamp \in ConcTimes :
       AddValues(vals, timestamp, [i \in DOMAIN archives |-> AnOrder])
  \/ Write([i \in DOMAIN archives |-> 0], FALSE)
  \/ \E w \in ReadWindows : GetDataBegin(w[1], w[2])
  \/ GetDataChunk
  \/ GetDataReturn

SpecConc == InitDisk /\ [][NextConc]_vars

\* -------------------------------------------------------- far appends
\* Appends to one archive at timestamps that lie up to three chunks
\* apart, with every value map and every range order.
GapTimes == {1, 2, ChunkSlots + 1, 2 * ChunkSlots + 1, 3 * ChunkSlots + 1}

NextAppend ==
  \E vals \in ValMaps, timestamp \in GapTimes,
     ords \in [DOMAIN archives -> Orders] :
    /\ \A i \in DOMAIN archives :
         OrderMatters(i, vals, timestamp) \/ ords[i] = AnOrder
    /\ AddValues(vals, timestamp, ords)

SpecAppend == InitDisk /\ [][NextAppend]_vars

\* ----------------------------------------------------------- queries
\* walkData for the base resolution, as Averages, Maximums and Minimums
\* call it (the rollup handler is not used there): nil reads as 0.0.
walkDataBaseZero(archs, startTime, endTime) ==
  LET resolution == baseArchive(archs).Interval
      l == GoDiv(endTime - startTime, resolution)
             + (IF GoMod(endTime - startTime, resolution) > 0 THEN 1 ELSE 0)
      idata == GetData(baseArchive(archs), startTime, endTime)
  IN [vals |-> [k \in DOMAIN idata.data |->
                  [i \in 1..l |->
                     IF i <= Len(idata.data[k]) /\ idata.data[k][i] # NIL
                     THEN idata.data[k][i][1] ELSE 0]],
      ts |-> idata.stamps]

\* walkData for the base resolution.  vals[k] is made with l zeros and
\* then filled from the series GetData returns for k, which is never
\* longer.
walkDataBase(archs, startTime, endTime) ==
  LET resolution == baseArchive(archs).Interval
      l == GoDiv(endTime - startTime, resolution)
             + (IF GoMod(endTime - startTime, resolution) > 0 THEN 1 ELSE 0)
      idata == GetData(baseArchive(archs), startTime, endTime)
  IN [vals |-> [k \in DOMAIN idata.data |->
                  [i \in 1..l |->
                     IF i <= Len(idata.data[k])
                     THEN IF idata.data[k][i] # NIL
                          THEN idata.data[k][i][1] ELSE DefaultValue
                     ELSE 0]],
      ts |-> idata.stamps]

\* ------------------------------------------- vocabulary of the claims
\* ts rounded up to a multiple of r.
Ceil(ts, r) == ((ts + r - 1) \div r) * r

\* The slot an archive holds in memory for timestamp t, by signal name,
\* read from the chunk that covers t; EmptyMap if there is none or it is
\* nil.
StoredSlot(a, t) ==
  LET cs == {i \in DOMAIN a.chunks :
               /\ a.chunks[i].StartTime <= t
               /\ t < a.chunks[i].StartTime + a.ChunkSize}
  IN IF cs = {} THEN EmptyMap
     ELSE LET c == a.chunks[CHOOSE i \in cs : TRUE]
          IN slotByName(c, (t - c.StartTime) \div a.Interval)

\* The reference stored for timestamp t (0: none or nil).
StoredRef(a, t) ==
  LET cs == {i \in DOMAIN a.chunks :
               /\ a.chunks[i].StartTime <= t
               /\ t < a.chunks[i].StartTime + a.ChunkSize}
  IN IF cs = {} THEN 0
     ELSE LET c == a.chunks[CHOOSE i \in cs : TRUE]
              idx == (t - c.StartTime) \div a.Interval
          IN IF idx < Len(c.Data) THEN c.Data[idx + 1] ELSE 0

\* t holds a sample that an append stored (not a fill-forward copy, which
\* shares the map of the slot before it).
IsAppended(a, t) ==
  /\ StoredRef(a, t) # 0
  /\ \/ t = chunkStart(a, t)
     \/ StoredRef(a, t - a.Interval) # StoredRef(a, t)

\* The slot at t as a caller reads it with GetData(t, t + Interval).
ReadSlot(a, t) ==
  LET d == GetData(a, t, t + a.Interval).data
  IN [k \in {k \in DOMAIN d : d[k][1] # NIL} |-> d[k][1][1]]

RECURSIVE SumFn(_)
SumFn(f) ==
  IF DOMAIN f = {} THEN 0
  ELSE LET x == CHOOSE x \in DOMAIN f : TRUE
       IN f[x] + SumFn([y \in DOMAIN f \ {x} |-> f[y]])

MaxOf(S) == CHOOSE x \in S : \A y \in S : y <= x
MinOf(S) == CHOOSE x \in S : \A y \in S : x <= y

\* The step is an AddValues call.
Called == calls' = calls + 1

\* The latest call was not a late sample: its timestamp is not below the
\* newest slot the base archive held.
InOrder == tsNorm(baseArchive(archives), last.timestamp) >= last.tailEnd

\* The timestamps of [lo, hi) at which the base archive holds signal s.
BaseSlotsOf(s, lo, hi) ==
  {t \in lo..(hi - 1) : s \in DOMAIN StoredSlot(baseArchive(archives), t)}

\* r is the reduction of the base slots ts of signal s.
ReducesBase(r, s, ts) ==
  LET v == [t \in ts |-> StoredSlot(baseArchive(archives), t)[s]]
  IN /\ r.Count = Cardinality(ts)
     /\ r.Total = SumFn(v)
     /\ r.Max = MaxOf({v[t] : t \in ts})
     /\ r.Min = MinOf({v[t] : t \in ts})

\* ------------------------------------------------------------- claims
\* C1 as stated: if the samples appended in a coarse interval [lo, hi) sit
\* at consecutive base slots and the latest AddValues lies past hi, the
\* rollup stored at hi has, per signal, count = the number of those
\* samples, total = their sum, max = their max and min = their min.
C1_RollupOfRun ==
  Len(archives) >= 2 =>
    \A m \in 0..(MaxTime \div archives[2].Interval) :
      LET R == archives[2].Interval
          lo == m * R
          hi == lo + R
          run == {t \in lo..(hi - 1) : IsAppended(baseArchive(archives), t)}
      IN (/\ run # {}
          /\ \A t \in lo..(hi - 1) :
               MinOf(run) <= t /\ t <= MaxOf(run) => t \in run
          /\ last.timestamp >= hi)
         => \A s \in Signals :
              LET ts == run \cap BaseSlotsOf(s, lo, hi)
              IN ts # {} =>
                   /\ s \in DOMAIN StoredSlot(archives[2], hi)
                   /\ ReducesBase(StoredSlot(archives[2], hi)[s], s, ts)

\* C1 as amended: when an AddValues that is not a late sample crosses a
\* coarse boundary, the rollup stored at T = floor(ts / R) * R reduces, per
\* signal, every non-null base slot of [T - R, T), fill-forward copies
\* included.
C1_RollupOfWindow ==
  (Len(archives) >= 2 /\ last.levels >= 1 /\ InOrder) =>
    LET R == archives[2].Interval
        T == last.timestamp - (last.timestamp % R)
    IN \A s \in Signals :
         LET ts == BaseSlotsOf(s, T - R, T)
         IN ts # {} =>
              /\ s \in DOMAIN StoredSlot(archives[2], T)
              /\ ReducesBase(StoredSlot(archives[2], T)[s], s, ts)

\* C1 witness: a boundary was crossed in order and the window just closed
\* holds two samples of "a" with different values, rolled up into count 2.
C1_Witness ==
  /\ Len(archives) >= 2 /\ last.levels >= 1 /\ InOrder
  /\ LET R == archives[2].Interval
         T == last.timestamp - (last.timestamp % R)
     IN /\ Cardinality(BaseSlotsOf("a", T - R, T)) = 2
        /\ "a" \in DOMAIN StoredSlot(archives[2], T)
        /\ StoredSlot(archives[2], T)["a"] = Rollup(3, 2, 1, 2)

\* C2 as stated: when an AddValues crosses a boundary T of the third
\* archive, the rollup stored there at T reduces the base samples of
\* [T - R2, T), and it combines the R1 rollups of the R1 intervals of that
\* window (stored at their ends T - R2 + R1, ..., T).
C2_CascadeOfWindow ==
  (Len(archives) >= 3 /\ last.levels >= 2 /\ InOrder) =>
    LET R1 == archives[2].Interval
        R2 == archives[3].Interval
        T == last.timestamp - (last.timestamp % R2)
        ends == {u \in (T - R2 + 1)..T : u % R1 = 0}
    IN \A s \in Signals :
         LET ts == BaseSlotsOf(s, T - R2, T)
             us == {u \in ends : s \in DOMAIN StoredSlot(archives[2], u)}
             r1 == [u \in us |-> StoredSlot(archives[2], u)[s]]
         IN ts # {} =>
              /\ s \in DOMAIN StoredSlot(archives[3], T)
              /\ ReducesBase(StoredSlot(archives[3], T)[s], s, ts)
              /\ LET r2 == StoredSlot(archives[3], T)[s]
                 IN /\ r2.Count = SumFn([u \in us |-> r1[u].Count])
                    /\ r2.Total = SumFn([u \in us |-> r1[u].Total])
                    /\ r2.Max = MaxOf({r1[u].Max : u \in us})
                    /\ r2.Min = MinOf({r1[u].Min : u \in us})

\* C3 as stated: after the first AddValues on an empty series every coarser
\* archive is still empty.
C3_FirstAddNoRollup ==
  calls = 1 =>
    \A i \in 2..Len(archives) :
      archives[i].EndTime = 0 /\ archives[i].chunks = << >>

\* C4 as stated: after any AddValues(values, ts), Latest returns exactly
\* values at ts rounded up to the base resolution.
C4_LatestIsValues ==
  calls >= 1 =>
    Latest(archives)
      = [val |-> last.vals,
         timestamp |-> Ceil(last.timestamp, baseArchive(archives).Interval)]

\* C4 as amended: with n = ts rounded up to the base resolution and e the
\* base tail chunk's EndTime before the call, Latest after AddValues
\* returns exactly values at n if n > e, the previous latest map
\* overwritten by values (still at e) if n = e, and what it returned
\* before the call if n < e.
C4_LatestAfterAdd ==
  [][Called =>
       LET n == Ceil(last'.timestamp, baseArchive(archives).Interval)
           pre == Latest(archives)
           post == Latest(archives')
       IN /\ n > pre.timestamp =>
               post = [val |-> last'.vals, timestamp |-> n]
          /\ n = pre.timestamp =>
               post = [val |-> MapMerge(pre.val, last'.vals), timestamp |-> n]
          /\ n < pre.timestamp => post = pre]_vars

\* C4 witness: on a nonempty series of resolution 2, an odd timestamp past
\* the tail was added with two signals and Latest returns them at ts + 1.
C4_Witness ==
  /\ baseArchive(archives).Interval = 2
  /\ last.timestamp % 2 = 1
  /\ last.tailEnd > 0
  /\ last.timestamp + 1 > last.tailEnd
  /\ Cardinality(DOMAIN last.vals) = 2
  /\ Latest(archives) = [val |-> last.vals, timestamp |-> last.timestamp + 1]

\* C5 as stated: no Append makes the EndTime of an archive smaller.
C5_EndTimeMonotonic ==
  [][\A i \in DOMAIN archives : archives'[i].EndTime >= archives[i].EndTime]_vars

\* The normalised timestamp of the Append archive i receives in the call
\* that last' records (the base archive the sample, archive i > 1 the
\* rollup of the window that ends at floor(ts / Interval) * Interval).
AppendedAt(i) ==
  IF i = 1 THEN tsNorm(archives[1], last'.timestamp)
  ELSE last'.timestamp - GoMod(last'.timestamp, archives[i].Interval)

\* C6: an Append whose normalised timestamp is below the tail chunk's
\* EndTime leaves every chunk of the archive as it was: slots, maps, tag
\* table and EndTime.
C6_LateAppendDropped ==
  [][Called =>
       \A i \in 1..(last'.levels + 1) :
         (/\ i <= Len(archives)
          /\ Len(archives[i].chunks) > 0
          /\ AppendedAt(i) < lastChunk(archives[i]).EndTime)
         => archives'[i].chunks = archives[i].chunks]_vars

\* C6 witness: the latest call passed a nonempty map with a timestamp below
\* the newest base slot.
C6_Witness ==
  /\ calls >= 2
  /\ last.vals # EmptyMap
  /\ tsNorm(baseArchive(archives), last.timestamp) < last.tailEnd
  /\ Latest(archives).timestamp = last.tailEnd

\* C7: an Append at the tail chunk's EndTime adds no slot and no chunk,
\* gives the tail slot the values passed for the signals passed, and
\* leaves every other signal of that slot and every other slot as it was.
C7_MergeIntoTail ==
  [][(/\ Called
      /\ Len(archives[1].chunks) > 0
      /\ AppendedAt(1) = lastChunk(archives[1]).EndTime)
     => LET old == archives[1].chunks
            new == archives'[1].chunks
        IN /\ Len(new) = Len(old)
           /\ \A j \in DOMAIN old :
                /\ Len(new[j].Data) = Len(old[j].Data)
                /\ \A idx \in 0..(Len(old[j].Data) - 1) :
                     /\ (new[j].Data[idx + 1] = 0) = (old[j].Data[idx + 1] = 0)
                     /\ slotByName(new[j], idx)
                          = IF j = Len(old) /\ idx = Len(old[j].Data) - 1
                            THEN MapMerge(slotByName(old[j], idx), last'.vals)
                            ELSE slotByName(old[j], idx)]_vars

\* C7 witness: the latest call merged "b" into a tail slot that held "a";
\* both are read at that timestamp, and an earlier slot holds a sample.
C7_Witness ==
  /\ calls >= 2
  /\ DOMAIN last.vals = {"b"}
  /\ tsNorm(baseArchive(archives), last.timestamp) = last.tailEnd
  /\ DOMAIN ReadSlot(baseArchive(archives), last.tailEnd) = {"a", "b"}
  /\ \E t \in 1..(last.tailEnd - 1) :
       StoredSlot(baseArchive(archives), t) # EmptyMap

\* C8 as stated: when the newest sample is at t0 and the next append is at
\* t0 + 2r, the slot at t0 + r reads as the slot at t0.
C8_OneSkippedSlot ==
  LET a == baseArchive(archives)
      t0 == last.tailEnd
  IN (calls >= 1 /\ t0 > 0 /\ tsNorm(a, last.timestamp) = t0 + 2 * a.Interval)
     => ReadSlot(a, t0 + a.Interval) = ReadSlot(a, t0)

\* C9 as stated: when an append into the tail chunk leaves n >= 1 missing
\* slots after the tail slot, each reads as the tail slot if n < 3 and as
\* null if n >= 3.
C9_GapFill ==
  LET a == baseArchive(archives)
      e == last.tailEnd
      t == tsNorm(a, last.timestamp)
      n == (t - e) \div a.Interval - 1
  IN (calls >= 1 /\ e > 0 /\ n >= 1 /\ chunkStart(a, e) = chunkStart(a, t))
     => \A j \in 1..n :
          ReadSlot(a, e + j * a.Interval)
            = IF n < 3 THEN ReadSlot(a, e) ELSE EmptyMap

\* The windows queried.
Windows ==
  {w \in (0..(MaxTime + QuerySlack)) \X (0..(MaxTime + QuerySlack)) :
     w[1] <= w[2]}

\* C10: a query at the base resolution returns, for every signal in the
\* result and every slot of the window, the value stored for the signal
\* at that slot, or DefaultValue if the slot is nil, holds no value of the
\* signal or lies outside the stored range.
C10_BaseQuery ==
  \A w \in Windows :
    LET a == baseArchive(archives)
        q == walkDataBase(archives, w[1], w[2])
    IN /\ Len(q.ts) = (Ceil(w[2], a.Interval) - Ceil(w[1], a.Interval))
                        \div a.Interval
       /\ \A k \in DOMAIN q.vals :
            \A i \in DOMAIN q.ts :
              /\ q.ts[i] = Ceil(w[1], a.Interval) + (i - 1) * a.Interval
              /\ q.vals[k][i]
                   = IF k \in DOMAIN StoredSlot(a, q.ts[i])
                     THEN StoredSlot(a, q.ts[i])[k] ELSE DefaultValue

\* C10 witness: a window over two chunks whose result for "a" holds a
\* stored value, DefaultValue at a nil slot between two samples and
\* DefaultValue past the newest slot.
C10_Witness ==
  \E w \in Windows :
    LET a == baseArchive(archives)
        q == walkDataBase(archives, w[1], w[2])
    IN /\ Len(a.chunks) >= 2
       /\ "a" \in DOMAIN q.vals
       /\ \E i, j, n \in DOMAIN q.ts :
            /\ i < j /\ j < n
            /\ q.ts[n] > lastChunk(a).EndTime
            /\ q.ts[i] < lastChunk(a).StartTime
            /\ q.vals["a"][i] # DefaultValue
            /\ StoredRef(a, q.ts[j]) = 0
            /\ q.ts[j] < lastChunk(a).EndTime
            /\ q.vals["a"][j] = DefaultValue
            /\ q.vals["a"][n] = DefaultValue

\* ----------------------------------------------------- rollup queries
\* The float64 a rollup query returns is kept exact, as a fraction
\* <<n, d>> in lowest terms with d > 0 (the rounding of the float64
\* division is left out).
RECURSIVE Gcd(_, _)
Gcd(a, b) == IF b = 0 THEN a ELSE Gcd(b, a % b)

Frac(n, d) ==
  LET g == Gcd(IF n < 0 THEN -n ELSE n, d)
  IN <<GoDiv(n, g), d \div g>>

\* float64(x) for an integer x, and the literal 0.0.
Float(x) == Frac(x, 1)
Zero == Float(0)

\* The nil error, and the errors of Rollups.
NoError == ""
ErrBaseArchive == "cannot get rollups from base archive"
ErrNoArchive == "no matching archive"

\* A Rollups that answers an unknown resolution with no data instead of
\* an error.
RollupsNoError(archs, startTime, endTime, resolution) ==
  LET hits == {i \in 2..Len(archs) : archs[i].Interval = resolution}
  IN IF hits = {}
     THEN [vals |-> EmptyMap, ts |-> << >>, err |-> NoError]
     ELSE LET got == GetData(archs[MaxOf(hits)], startTime, endTime)
          IN [vals |-> [k \in DOMAIN got.data |->
                          [i \in DOMAIN got.data[k] |->
                             IF got.data[k][i] # NIL THEN got.data[k][i][1]
                             ELSE Rollup(0, 0, 0, 0)]],
              ts |-> got.stamps,
              err |-> NoError]

\* TimeSeries.Rollups.  A nil map reads as EmptyMap and a nil slice as
\* << >>.  The loop over the coarser archives keeps the last match.
Rollups(archs, startTime, endTime, resolution) ==
  IF resolution = baseArchive(archs).Interval
  THEN [vals |-> EmptyMap, ts |-> << >>, err |-> ErrBaseArchive]
  ELSE LET hits == {i \in 2..Len(archs) : archs[i].Interval = resolution}
       IN IF hits = {}
          THEN [vals |-> EmptyMap, ts |-> << >>, err |-> ErrNoArchive]
          ELSE LET archive == archs[MaxOf(hits)]
                   got == GetData(archive, startTime, endTime)
               IN [vals |-> [k \in DOMAIN got.data |->
                               [i \in DOMAIN got.data[k] |->
                                  IF got.data[k][i] # NIL
                                  THEN got.data[k][i][1]
                                  ELSE Rollup(0, 0, 0, 0)]],
                   ts |-> got.stamps,
                   err |-> NoError]

\* The rollupHandler closures of Averages, Maximums and Minimums; a
\* function value is passed by its name.
averageHandler(r) == IF r.Count > 0 THEN Frac(r.Total, r.Count) ELSE Zero
maximumHandler(r) == IF r.Count > 0 THEN Float(r.Max) ELSE Zero
minimumHandler(r) == IF r.Count > 0 THEN Float(r.Min) ELSE Zero
rollupHandler(h, r) ==
  CASE h = "average" -> averageHandler(r)
    [] h = "maximum" -> maximumHandler(r)
    [] h = "minimum" -> minimumHandler(r)

\* TimeSeries.walkData.  In the rollup branch vals[k] is made with l zeros
\* and filled from the series Rollups returns for k.
walkData(startTime, endTime, resolution, h, archs) ==
  LET l == GoDiv(endTime - startTime, resolution)
             + (IF GoMod(endTime - startTime, resolution) > 0 THEN 1 ELSE 0)
  IN IF resolution = baseArchive(archs).Interval
     THEN LET b == walkDataBase(archs, startTime, endTime)
          IN [vals |-> [k \in DOMAIN b.vals |->
                          [i \in DOMAIN b.vals[k] |-> Float(b.vals[k][i])]],
              ts |-> b.ts, err |-> NoError]
     ELSE LET rdata == Rollups(archs, startTime, endTime, resolution)
          IN IF rdata.err # NoError
             THEN [vals |-> EmptyMap, ts |-> << >>, err |-> rdata.err]
             ELSE [vals |-> [k \in DOMAIN rdata.vals |->
                               [i \in 1..l |->
                                  IF i <= Len(rdata.vals[k])
                                  THEN rollupHandler(h, rdata.vals[k][i])
                                  ELSE Zero]],
                   ts |-> rdata.ts, err |-> NoError]

Averages(archs, startTime, endTime, resolution) ==
  walkData(startTime, endTime, resolution, "average", archs)

Maximums(archs, startTime, endTime, resolution) ==
  walkData(startTime, endTime, resolution, "maximum", archs)

Minimums(archs, startTime, endTime, resolution) ==
  walkData(startTime, endTime, resolution, "minimum", archs)

\* The three aggregate queries by name.
Aggregates == {"Averages", "Maximums", "Minimums"}
Aggregate(f, archs, startTime, endTime, resolution) ==
  CASE f = "Averages" -> Averages(archs, startTime, endTime, resolution)
    [] f = "Maximums" -> Maximums(archs, startTime, endTime, resolution)
    [] f = "Minimums" -> Minimums(archs, startTime, endTime, resolution)

\* The resolutions of the coarser archives, and of all archives.
CoarseResolutions == {archives[i].Interval : i \in 2..Len(archives)}
Resolutions == {archives[i].Interval : i \in DOMAIN archives}

\* The archive of a configured resolution.
ArchiveOf(res) ==
  archives[CHOOSE i \in DOMAIN archives : archives[i].Interval = res]

\* C11 as stated: in a query at a coarser resolution, Averages, Maximums
\* and Minimums report DefaultValue at every returned slot for which the
\* archive holds no rollup of the signal or a rollup with count 0.
C11_EmptyRollupIsDefault ==
  \A f \in Aggregates, res \in CoarseResolutions, w \in Windows :
    LET q == Aggregate(f, archives, w[1], w[2], res)
    IN \A k \in DOMAIN q.vals, i \in DOMAIN q.ts :
         LET stored == StoredSlot(ArchiveOf(res), q.ts[i])
         IN (k \notin DOMAIN stored \/ stored[k].Count = 0)
            => q.vals[k][i] = Float(DefaultValue)

\* C12 as stated: for a window [s, e) with s < e at a configured
\* resolution r, the timestamp vector of Averages, Maximums and Minimums
\* has length ceil((e - s) / r) and its i-th element (from 0) is s + i * r.
C12_Timestamps ==
  \A f \in Aggregates, r \in Resolutions, w \in Windows :
    w[1] < w[2] =>
      LET q == Aggregate(f, archives, w[1], w[2], r)
      IN /\ Len(q.ts) = Ceil(w[2] - w[1], r) \div r
         /\ \A i \in DOMAIN q.ts : q.ts[i] = w[1] + (i - 1) * r

\* The windows that start below the coarsest resolution: their starts
\* cover every remainder of every resolution.
StartWindows == {w \in Windows : w[1] < 4}

\* C12 as amended: for a window with s <= e at a configured resolution r,
\* the timestamp vector of Averages, Maximums and Minimums starts at s
\* rounded up to a multiple of r, advances by r and stops below e rounded
\* up (for s a multiple of r that is s, s + r, ... with ceil((e - s) / r)
\* elements).
C12_TimestampsNormalised ==
  \A f \in Aggregates, r \in Resolutions, w \in StartWindows :
    LET q == Aggregate(f, archives, w[1], w[2], r)
    IN /\ Len(q.ts) = (Ceil(w[2], r) - Ceil(w[1], r)) \div r
       /\ \A i \in DOMAIN q.ts : q.ts[i] = Ceil(w[1], r) + (i - 1) * r

\* C12 witness: on a series that holds rollups of "a", the window [1, 6)
\* at resolution 2 returns the timestamps 2, 4 and the window [2, 7) the
\* timestamps 2, 4, 6.
C12_Witness ==
  /\ Len(archives) = 3
  /\ LET q == Maximums(archives, 1, 6, 2)
     IN /\ q.ts = <<2, 4>>
        /\ "a" \in DOMAIN q.vals
        /\ \E i \in DOMAIN q.ts : q.vals["a"][i] # Zero
  /\ Maximums(archives, 2, 7, 2).ts = <<2, 4, 6>>

\* The resolutions asked for: the configured ones and others.
QueryResolutions == {1, 2, 3, 4, 8}

DiskArchive == archives[1]
DiskRead(t) == ReadSlot(DiskArchive, t)

\* The timestamps read back.
DiskSlots == 0..(DiskMaxTime + 1)

\* The step is a Write that returned no error.
WriteOk == last'.op = "Write" /\ io' = io + 1 /\ ~panicked' /\ ~last'.err

\* What OpenArchive makes of the archive's directory as it is now.
Reopened == OpenArchive(disk, DiskArchive.Dir)

\* C14 as stated, for the sample at EndTime, which was appended and lies in
\* [EndTime - Retention, EndTime]: after a Write that returns no error the
\* archive still reads it, and so does the archive opened from the files
\* that Write left.
C14_RetainedWindowKept ==
  [][WriteOk =>
       \A t \in DiskSlots :
         (t = DiskArchive.EndTime /\ DiskRead(t) # EmptyMap)
         => /\ DiskRead(t)' = DiskRead(t)
            /\ \E r \in {Reopened'} :
                 ~r.err /\ ReadSlot(r.a, t)' = DiskRead(t)]_vars

C16_WriteIdempotent ==
  [][(last.op = "Write" /\ ~last.err /\ WriteOk) =>
       /\ archives' = archives
       /\ disk' = disk]_vars

\* C16 witness: two Writes in a row returned no error, the first of them
\* moved StartTime past a chunk, and the tail chunk's file is there.
C16_Witness ==
  /\ last.op = "Write" /\ ~last.err /\ ~panicked
  /\ last.prev = "Write" /\ ~last.prevErr
  /\ io = 2
  /\ DiskArchive.EndTime > 0
  /\ DiskArchive.StartTime > DiskMaxTime - DiskArchive.ChunkSize
  /\ DOMAIN disk.dirs[DiskArchive.Dir].chunks # {}

\* C17: a Write in which the writeObject of a chunk fails returns the
\* error and leaves the header file, lastWrite, StartTime and the chunks in
\* memory with their dirty flags as they were, removes no file, and leaves
\* EndTime above lastWrite, so that the next Write walks the same chunks.
C17_FailedWrite ==
  [][(/\ last'.op = "Write" /\ io' = io + 1 /\ ~panicked'
      /\ last'.failAt[1] # 0)
     => LET dir == disk.dirs[DiskArchive.Dir]
            dir2 == disk'.dirs[DiskArchive.Dir]
        IN /\ last'.err
           /\ archives' = archives
           /\ dir2.archive = dir.archive
           /\ DOMAIN dir.chunks \subseteq DOMAIN dir2.chunks
           /\ DiskArchive'.EndTime > DiskArchive'.lastWrite]_vars

\* C17 witness: a Write failed at a chunk, and the Write after it walked
\* the chunks again, stored them and returned no error.
C17_Witness ==
  /\ last.op = "Write" /\ ~last.err /\ ~panicked
  /\ last.prev = "Write" /\ last.prevErr
  /\ io = 2
  /\ Cardinality(DOMAIN disk.dirs[DiskArchive.Dir].chunks) >= 1
  /\ DiskArchive.lastWrite = DiskArchive.EndTime
  /\ DiskArchive.EndTime > 0

\* C18 as stated: an OpenTimeSeries that follows a Write that returned no
\* error yields an archive with the same StartTime and EndTime that reads
\* the same at every slot.
C18_RoundTrip ==
  [][(/\ last.op = "Write" /\ ~last.err /\ ~panicked
      /\ last'.op = "OpenTimeSeries" /\ io' = io + 1)
     => /\ DiskArchive' # NilArchive
        /\ DiskArchive'.StartTime = DiskArchive.StartTime
        /\ DiskArchive'.EndTime = DiskArchive.EndTime
        /\ \A t \in DiskSlots : DiskRead(t)' = DiskRead(t)]_vars

\* C19 as stated: an OpenTimeSeries that returns no error returns a series
\* in which every archive was opened.
C19_OpenReportsErrors ==
  (last.op = "OpenTimeSeries" /\ ~last.err) =>
    \A i \in DOMAIN archives : archives[i] # NilArchive

\* C20 as stated: a GetData beside which at most one AddValues or Write
\* ran returns what it would have returned entirely before that call or
\* entirely after it.
C20_ReadIsAtomic ==
  (reader.pc = "done" /\ calls + io <= reader.ops + 1) =>
    reader.data \in {reader.before,
                     GetData(DiskArchive, reader.start, reader.end).data}

\* C21 as stated, for the retention sweep: a Write that returns no error
\* on an archive with EndTime > 0 and EndTime >= StartTime leaves
\* EndTime >= StartTime.
C21_StartNotPastEnd ==
  [][(/\ WriteOk
      /\ DiskArchive.EndTime > 0
      /\ DiskArchive.EndTime >= DiskArchive.StartTime)
     => DiskArchive'.EndTime >= DiskArchive'.StartTime]_vars

\* C22 as stated: every chunk of the archive with EndTime # 0 ends inside
\* its own span, on a slot.
C22_ChunkEndsInSpan ==
  \A k \in DOMAIN DiskArchive.chunks :
    LET c == DiskArchive.chunks[k]
    IN c.EndTime # 0 =>
         /\ c.EndTime < c.StartTime + DiskArchive.ChunkSize
         /\ GoMod(c.EndTime - c.StartTime, c.Resolution) = 0

\* C23: every chunk of every archive with EndTime # 0 holds
\* (EndTime - StartTime) / Resolution + 1 slots, and getData over a window
\* of its slots returns for every tag one entry per slot of the window,
\* entry n being the slot at index (start - StartTime) / Resolution + n.
C23_DataLength ==
  \A i \in {i \in DOMAIN archives : archives[i] # NilArchive} :
    \A k \in DOMAIN archives[i].chunks :
      LET c == archives[i].chunks[k]
          stamps == {c.StartTime + n * c.Resolution : n \in 0..ChunkSlots}
      IN /\ ~empty(c) =>
              Len(c.Data) = GoDiv(c.EndTime - c.StartTime, c.Resolution) + 1
         /\ \A start, end \in stamps :
              start <= end =>
                LET d == chunkGetData(c, start, end)
                    l == GoDiv(end - start, c.Resolution)
                    first == GoDiv(start - c.StartTime, c.Resolution)
                IN \A tag \in DOMAIN d :
                     /\ Len(d[tag]) = l
                     /\ \A n \in 1..l :
                          LET slot == slotByName(c, first + n - 1)
                          IN d[tag][n] = IF tag \in DOMAIN slot
                                         THEN Some(slot[tag]) ELSE NIL

\* C23 witness: a chunk of resolution 2 was appended to, filled over a gap
\* and merged into: it holds at least three slots, one of them a fill, and
\* the latest call was a merge into the base archive's tail slot.
C23_Witness ==
  /\ ~panicked
  /\ calls >= 3
  /\ tsNorm(baseArchive(archives), last.timestamp) = last.tailEnd
  /\ \E k \in DOMAIN baseArchive(archives).chunks :
       LET c == baseArchive(archives).chunks[k]
       IN /\ c.Resolution = 2
          /\ Len(c.Data) >= 3
          /\ Len(c.Data) = GoDiv(c.EndTime - c.StartTime, c.Resolution) + 1
          /\ \E n \in 2..(Len(c.Data) - 1) :
               c.Data[n] = 0 \/ c.Data[n] = c.Data[n - 1]

\* C24 as stated: an AddValues into the tail chunk that OpenTimeSeries
\* has just read back does not panic, keeps every name of the chunk's tag
\* table at its index, adds no name twice and leaves every tag index of
\* the chunk's slots below the length of the tag table.
C24_AppendAfterReopen ==
  [][(/\ Called
      /\ last.op = "OpenTimeSeries" /\ ~last.err
      /\ DiskArchive # NilArchive
      /\ Len(DiskArchive.chunks) > 0
      /\ AppendedAt(1) >= lastChunk(DiskArchive).EndTime
      /\ ~boundaryCheck(DiskArchive, AppendedAt(1)))
     => /\ ~panicked'
        /\ LET old == lastChunk(DiskArchive)
               new == lastChunk(DiskArchive')
           IN /\ \A n \in DOMAIN old.Tags : new.Tags[n] = old.Tags[n]
              /\ \A n, m \in DOMAIN new.Tags :
                   new.Tags[n] = new.Tags[m] => n = m
              /\ \A n \in DOMAIN new.maps :
                   \A idx \in DOMAIN new.maps[n] : idx < Len(new.Tags)]_vars

\* The window [T - R, T) that the latest call rolled up into the second
\* archive holds no value of signal s, and a base slot before it does.
NullInWindow(s) ==
  LET R == archives[2].Interval
      T == last.timestamp - (last.timestamp % R)
  IN /\ BaseSlotsOf(s, T - R, T) = {}
     /\ BaseSlotsOf(s, 0, T - R) # {}

\* C25 as stated: when an AddValues that is not a late sample crosses a
\* boundary T of the second archive, the rollup stored at T holds a zero
\* Rollup for every signal written before whose slots in [T - R, T) are
\* all null.
C25_NullSignalRolledUp ==
  (Len(archives) >= 2 /\ last.levels >= 1 /\ InOrder) =>
    LET R == archives[2].Interval
        T == last.timestamp - (last.timestamp % R)
    IN \A s \in Signals :
         NullInWindow(s) =>
           /\ s \in DOMAIN StoredSlot(archives[2], T)
           /\ StoredSlot(archives[2], T)[s] = Rollup(0, 0, 0, 0)

\* C25 as amended: rollupRawData gives a signal whose inputs are all null
\* a zero Rollup, but the cascade hands it no such signal: the rollup
\* stored at T holds no entry for a signal whose slots in [T - R, T) are
\* all null.
C25_NullSignalLeftOut ==
  /\ \A s \in Signals :
       rollupRawData([k \in {s} |-> <<NIL, NIL>>])[s] = Rollup(0, 0, 0, 0)
  /\ (Len(archives) >= 2 /\ last.levels >= 1 /\ InOrder) =>
       LET R == archives[2].Interval
           T == last.timestamp - (last.timestamp % R)
       IN \A s \in Signals :
            NullInWindow(s) => s \notin DOMAIN StoredSlot(archives[2], T)

\* C25 witness: the latest call rolled up a window that holds "b" and no
\* "a", "a" was written before the window, and the rollup stored holds
\* "b" only.
C25_Witness ==
  /\ Len(archives) >= 2 /\ last.levels >= 1 /\ InOrder /\ ~panicked
  /\ NullInWindow("a")
  /\ LET R == archives[2].Interval
         T == last.timestamp - (last.timestamp % R)
     IN /\ BaseSlotsOf("b", T - R, T) # {}
        /\ DOMAIN StoredSlot(archives[2], T) = {"b"}

\* The index of the name tag in the tag table of the chunk that covers t
\* (-1: no such chunk or no such name).
TagIndexAt(a, t, tag) ==
  LET cs == {i \in DOMAIN a.chunks :
               /\ a.chunks[i].StartTime <= t
               /\ t < a.chunks[i].StartTime + a.ChunkSize}
  IN IF cs = {} THEN -1
     ELSE LET c == a.chunks[CHOOSE i \in cs : TRUE]
              at == {n \in DOMAIN c.Tags : c.Tags[n] = tag}
          IN IF at = {} THEN -1 ELSE (CHOOSE n \in at : TRUE) - 1

\* What an Append stored for signal k at timestamp t, as the slot's own
\* map and its chunk's tag table give it.
StoredValue(a, t, k) ==
  LET ref == StoredRef(a, t)
      cs == {i \in DOMAIN a.chunks :
               /\ a.chunks[i].StartTime <= t
               /\ t < a.chunks[i].StartTime + a.ChunkSize}
      idx == TagIndexAt(a, t, k)
  IN IF ref = 0 \/ idx = -1 THEN NIL
     ELSE LET tick == a.chunks[CHOOSE i \in cs : TRUE].maps[ref]
          IN IF idx \in DOMAIN tick THEN Some(tick[idx]) ELSE NIL

\* C26: GetData of the base archive over any window returns, for every
\* signal of the result, one entry per slot of the window: the value the
\* slot's chunk holds under that name, or nil; and it returns a series
\* for every signal that has a value in the window.
C26_ReadByName ==
  \A w \in Windows :
    LET a == baseArchive(archives)
        d == GetData(a, w[1], w[2])
    IN /\ \A k \in DOMAIN d.data :
            /\ Len(d.data[k]) = Len(d.stamps)
            /\ \A n \in DOMAIN d.stamps :
                 d.data[k][n] = StoredValue(a, d.stamps[n], k)
       /\ \A k \in Signals :
            (\E n \in DOMAIN d.stamps : StoredValue(a, d.stamps[n], k) # NIL)
            => k \in DOMAIN d.data

\* C26 witness: a window over two chunks that hold "b" under different
\* tag indices; GetData returns the value of "b" of either chunk.
C26_Witness ==
  \E w \in Windows :
    LET a == baseArchive(archives)
        d == GetData(a, w[1], w[2])
    IN /\ ~panicked
       /\ "b" \in DOMAIN d.data
       /\ \E n, m \in DOMAIN d.stamps :
            /\ n < m
            /\ chunkStart(a, d.stamps[n]) # chunkStart(a, d.stamps[m])
            /\ d.data["b"][n] # NIL /\ d.data["b"][m] # NIL
            /\ TagIndexAt(a, d.stamps[n], "b")
                 # TagIndexAt(a, d.stamps[m], "b")

\* C27 as stated: for every window, every configured resolution and each of
\* Averages, Maximums and Minimums, a query that returns no error returns
\* for every signal as many values as it returns timestamps.
C27_ValuesMatchTimestamps ==
  \A f \in Aggregates, w \in Windows, res \in Resolutions :
    LET q == Aggregate(f, archives, w[1], w[2], res)
    IN q.err = NoError =>
         \A k \in DOMAIN q.vals : Len(q.vals[k]) = Len(q.ts)

\* C28 as stated: after a Write that returns no error on an archive with
\* EndTime > 0, the file of the chunk that starts at chunkStart(EndTime)
\* can be read and OpenArchive of the directory returns no error.
C28_TailFileKept ==
  [][(WriteOk /\ DiskArchive'.EndTime > 0) =>
       /\ ~readFails(chunkFile(disk', DiskArchive'.Dir,
                               chunkStart(DiskArchive', DiskArchive'.EndTime)))
       /\ ~Reopened'.err]_vars

\* C29 as stated: after a Write that returns no error and leaves a
\* directory that OpenArchive can open, the archive opened from the files
\* reads at every slot what the archive in memory reads.
C29_FilesHoldMemory ==
  [][WriteOk =>
       \E r \in {Reopened'} :
         ~r.err =>
           \A t \in DiskSlots : ReadSlot(r.a, t)' = DiskRead(t)']_vars

\* C30 as stated: after a Write that returns no error no chunk of the
\* archive in memory is dirty.
C30_WriteClearsDirty ==
  [][WriteOk =>
       \A k \in DOMAIN DiskArchive'.chunks :
         ~DiskArchive'.chunks[k].dirty]_vars

====
